---- MODULE Spec2Model ----
(***************************************************************************)
(* Model of the content-mixing HTTP handler of cromulent (src/server.go). *)
(* One request is served by App.ServeHTTP: the query parameters are read, *)
(* the configured content mix is stretched over the requested window, one *)
(* goroutine per distinct config fetches its items (with a fallback), the *)
(* handler collects the results from an unbuffered channel, waits on the  *)
(* waitgroup and arranges the items in the order of the stretched mix.    *)
(***************************************************************************)
EXTENDS Integers, Sequences, FiniteSets, TLC

\* ------------------------------------------------------------------------
\* Bounds of the model
\* ------------------------------------------------------------------------
MaxCount == 3

MaxOffset == 1

MaxPatLen == 2

MaxStock == 1

\* ------------------------------------------------------------------------
\* Values
\* ------------------------------------------------------------------------
\* Provider identifiers (Provider1, Provider2 of the tests).
Providers == {"Provider1", "Provider2"}

\* Values of the Fallback field, a *Provider: nil, the address of a provider
\* variable, or the address of a separately allocated copy of Provider2.
NilPtr == "nil"

Pointers == {NilPtr, "&Provider1", "&Provider2", "&Provider2Copy"}

\* *confItem.Fallback for a non-nil pointer.
Deref(ptr) ==
  CASE ptr = "&Provider1" -> "Provider1"
    [] ptr = "&Provider2" -> "Provider2"
    [] ptr = "&Provider2Copy" -> "Provider2"

\* ContentConfig values used in patterns: a primary with fallback, the test's
\* {Type: Provider2, Fallback: &Provider2}, a config without fallback, and a
\* config equal to the first one up to the address of its fallback.
ContentConfigs ==
  { [Type |-> "Provider1", Fallback |-> "&Provider2"],
    [Type |-> "Provider2", Fallback |-> "&Provider2"],
    [Type |-> "Provider1", Fallback |-> NilPtr],
    [Type |-> "Provider1", Fallback |-> "&Provider2Copy"] }

\* ContentMix: sequences of configs, the empty one included.
ContentMixes == UNION { [1..n -> ContentConfigs] : n \in 0..MaxPatLen }

\* A Go slice of items: nil, or a (possibly empty) sequence of elements.
NilSlice == [isNil |-> TRUE, elems |-> <<>>]

Slice(s) == [isNil |-> FALSE, elems |-> s]

\* A content item: its source and its position in the provider's answer.
Item(p, i) == [Source |-> p, idx |-> i]

\* Clients of the registry: a working provider, a failing one, one with a
\* limited inventory, and the absence of a client for the provider.
SampleContentProvider == [kind |-> "sample", stock |-> 0]

FailingSampleProvider == [kind |-> "failing", stock |-> 0]

LimitedProvider(k) == [kind |-> "limited", stock |-> k]

NoClient == [kind |-> "none", stock |-> 0]

Clients ==
  {SampleContentProvider, FailingSampleProvider, NoClient}
    \cup { LimitedProvider(k) : k \in 0..MaxStock }

\* A query parameter as given in the URL: absent, not a number, or a number.
QueryParams(max) ==
  { [kind |-> "missing", val |-> 0], [kind |-> "text", val |-> 0] }
    \cup { [kind |-> "num", val |-> n] : n \in (-1)..max }

StatusBadRequest == 400

StatusInternalServerError == 500

StatusOK == 200

\* ------------------------------------------------------------------------
\* State
\* ------------------------------------------------------------------------
VARIABLES
  Config,           \* app.Config
  ContentClients,   \* app.ContentClients
  countParam,       \* the request's count query parameter
  offsetParam,      \* the request's offset query parameter
  pc,               \* position of ServeHTTP
  count,            \* local count of ServeHTTP
  offset,           \* local offset of ServeHTTP
  order,            \* local order of ServeHTTP
  CountsPerConfig,  \* local CountsPerConfig of ServeHTTP
  waitgroup,        \* counter of the sync.WaitGroup
  gpc,              \* position of each fetchItemsForConfig goroutine
  taskItems,        \* local contents of each goroutine
  calls,            \* GetContent invocations made by each goroutine
  received,         \* loop counter of getMapOfFetchedContents
  fetchedContents,  \* the FetchedContentsMap
  returnList,       \* the list handed to writeJsonResponse
  status,           \* status code of the response (0: none written yet)
  body,             \* chunks written to the response, in order
  prev              \* what the previous request on the same App was answered

vars ==
  << Config, ContentClients, countParam, offsetParam, pc, count, offset, order,
     CountsPerConfig, waitgroup, gpc, taskItems, calls, received,
     fetchedContents, returnList, status, body, prev >>

\* ------------------------------------------------------------------------
\* The response writer
\* ------------------------------------------------------------------------
\* w.WriteHeader(code): the first status code written is the one that counts.
WriteHeader(resp, code) ==
  [resp EXCEPT !.status = IF resp.status = 0 THEN code ELSE resp.status]

\* w.Write(chunk): writes the header with 200 if none was written yet.
Write(resp, chunk) ==
  [status |-> IF resp.status = 0 THEN StatusOK ELSE resp.status,
   body |-> Append(resp.body, chunk)]

sendMissingParameterError(missingParam, resp) ==
  Write(WriteHeader(resp, StatusBadRequest), <<"missing", missingParam>>)

sendIncorrectParameterError(missingParam, resp) ==
  Write(WriteHeader(resp, StatusBadRequest), <<"incorrect", missingParam>>)

sendInternalServerError(err, resp) ==
  Write(WriteHeader(resp, StatusInternalServerError), <<"internal", err>>)

\* ------------------------------------------------------------------------
\* getQueryParameter
\* ------------------------------------------------------------------------
\* req.URL.Query().Get(param) = "" exactly when the parameter is absent.
IsEmptyString(given) == given.kind = "missing"

\* strconv.Atoi: the number, or 0 and an error for a string that is no number.
Atoi(given) ==
  IF given.kind = "num"
    THEN [val |-> given.val, err |-> FALSE]
    ELSE [val |-> 0, err |-> TRUE]

\* The value the handler goes on with, and the response after the call.
getQueryParameter(param, given, resp) ==
  LET r1 == IF IsEmptyString(given)
              THEN sendMissingParameterError(param, resp)
              ELSE resp
      conv == Atoi(given)
      r2 == IF conv.err THEN sendIncorrectParameterError(param, r1) ELSE r1
  IN [val |-> conv.val, resp |-> r2]

\* ------------------------------------------------------------------------
\* stretchContentMixOverCount
\* ------------------------------------------------------------------------
\* The for loop: i, configIdx (0-based) and the mix appended so far. Indexing
\* config[configIdx] beyond the last index panics.
RECURSIVE stretchLoop(_, _, _, _, _, _)
stretchLoop(config, cnt, off, i, configIdx, mix) ==
  IF ~(i < off + cnt)
    THEN [panicked |-> FALSE, mix |-> mix]
    ELSE IF i >= off /\ configIdx >= Len(config)
      THEN [panicked |-> TRUE, mix |-> mix]
      ELSE stretchLoop(config, cnt, off, i + 1,
                       IF configIdx + 1 > Len(config) - 1 THEN 0 ELSE configIdx + 1,
                       IF i >= off THEN Append(mix, config[configIdx + 1]) ELSE mix)

\* Mutant: the loop starts the pattern at its first element whatever the offset.
stretchContentMixOverCount_RestartsPattern(config, cnt, off, resp) ==
  LET loop == stretchLoop(config, cnt, 0, 0, 0, <<>>)
  IN [panicked |-> loop.panicked, mix |-> loop.mix, resp |-> resp]

\* Mutant: the loop tests i > offset and so drops the element at the offset.
stretchContentMixOverCount_SkipsFirst(config, cnt, off, resp) ==
  LET loop == stretchLoop(config, cnt - 1, off + 1, 0, 0, <<>>)
  IN [panicked |-> loop.panicked, mix |-> loop.mix, resp |-> resp]

\* The stretched mix, whether the loop panicked, and the response after the
\* call (an empty configuration sends the internal server error and goes on).
stretchContentMixOverCount(config, cnt, off, resp) ==
  LET r == IF Len(config) - 1 = -1
             THEN sendInternalServerError("The app configuration is empty.", resp)
             ELSE resp
      loop == stretchLoop(config, cnt, off, 0, 0, <<>>)
  IN [panicked |-> loop.panicked, mix |-> loop.mix, resp |-> r]

\* ------------------------------------------------------------------------
\* getContentCountsPerConfig
\* ------------------------------------------------------------------------
RECURSIVE countsLoop(_, _, _)
countsLoop(ord, i, countsPerConfig) ==
  IF i > Len(ord)
    THEN countsPerConfig
    ELSE countsLoop(ord, i + 1,
                    IF ord[i] \in DOMAIN countsPerConfig
                      THEN [countsPerConfig EXCEPT ![ord[i]] = @ + 1]
                      ELSE countsPerConfig @@ (ord[i] :> 1))

\* Mutant: the first occurrence of a config is entered with 0 instead of 1.
getContentCountsPerConfig_FirstUncounted(ord) ==
  [c \in { ord[j] : j \in DOMAIN ord } |->
     Cardinality({ j \in DOMAIN ord : ord[j] = c }) - 1]

\* Mutant: a config seen again is not counted again.
getContentCountsPerConfig_NoIncrement(ord) ==
  [c \in { ord[j] : j \in DOMAIN ord } |-> 1]

getContentCountsPerConfig(ord) == countsLoop(ord, 1, <<>>)

\* ------------------------------------------------------------------------
\* Provider clients
\* ------------------------------------------------------------------------
\* FailingSampleProvider.GetContent: no items and an error.
FailingGetContent(p, amount) == [err |-> TRUE, items |-> NilSlice]

\* A working provider returns exactly the requested number of its own items.
SampleGetContent(p, amount) ==
  [err |-> FALSE, items |-> Slice([i \in 1..amount |-> Item(p, i)])]

\* A provider with a limited inventory returns what it has, at most the
\* requested number, as a non-nil list.
LimitedGetContent(p, stock, amount) ==
  [err |-> FALSE,
   items |-> Slice([i \in 1..(IF stock < amount THEN stock ELSE amount) |-> Item(p, i)])]

\* client.GetContent(userIP, amount) for a registered client of provider p.
GetContent(client, p, amount) ==
  CASE client.kind = "failing" -> FailingGetContent(p, amount)
    [] client.kind = "sample" -> SampleGetContent(p, amount)
    [] client.kind = "limited" -> LimitedGetContent(p, client.stock, amount)

\* ------------------------------------------------------------------------
\* fetchItemsForConfig, up to the channel send
\* ------------------------------------------------------------------------
\* Mutant: the fallback is never asked.
fetchItemsForConfig_NoFallback(clients, confItem, amount) ==
  IF clients[confItem.Type].kind = "none"
    THEN [panicked |-> TRUE, items |-> NilSlice, calls |-> <<>>]
    ELSE
      LET first == GetContent(clients[confItem.Type], confItem.Type, amount)
          call1 == [provider |-> confItem.Type, amount |-> amount]
      IN [panicked |-> FALSE,
          items |-> IF first.err THEN NilSlice ELSE first.items,
          calls |-> <<call1>>]

\* Mutant: the fallback is also asked when the primary answered with fewer items
\* than requested.
fetchItemsForConfig_FallbackOnShort(clients, confItem, amount) ==
  IF clients[confItem.Type].kind = "none"
    THEN [panicked |-> TRUE, items |-> NilSlice, calls |-> <<>>]
    ELSE
      LET first == GetContent(clients[confItem.Type], confItem.Type, amount)
          call1 == [provider |-> confItem.Type, amount |-> amount]
      IN IF ~first.err /\ Len(first.items.elems) >= amount
           THEN [panicked |-> FALSE, items |-> first.items, calls |-> <<call1>>]
           ELSE IF confItem.Fallback = NilPtr
             THEN [panicked |-> TRUE, items |-> NilSlice, calls |-> <<call1>>]
             ELSE IF clients[Deref(confItem.Fallback)].kind = "none"
               THEN [panicked |-> TRUE, items |-> NilSlice, calls |-> <<call1>>]
               ELSE
                 LET fb == Deref(confItem.Fallback)
                     second == GetContent(clients[fb], fb, amount)
                     call2 == [provider |-> fb, amount |-> amount]
                 IN [panicked |-> FALSE,
                     items |-> IF second.err THEN NilSlice ELSE second.items,
                     calls |-> <<call1, call2>>]

\* Calling GetContent on the nil interface of an unregistered provider and
\* dereferencing a nil Fallback both panic.
fetchItemsForConfig(clients, confItem, amount) ==
  IF clients[confItem.Type].kind = "none"
    THEN [panicked |-> TRUE, items |-> NilSlice, calls |-> <<>>]
    ELSE
      LET first == GetContent(clients[confItem.Type], confItem.Type, amount)
          call1 == [provider |-> confItem.Type, amount |-> amount]
      IN IF ~first.err
           THEN [panicked |-> FALSE, items |-> first.items, calls |-> <<call1>>]
           ELSE IF confItem.Fallback = NilPtr
             THEN [panicked |-> TRUE, items |-> NilSlice, calls |-> <<call1>>]
             ELSE IF clients[Deref(confItem.Fallback)].kind = "none"
               THEN [panicked |-> TRUE, items |-> NilSlice, calls |-> <<call1>>]
               ELSE
                 LET fb == Deref(confItem.Fallback)
                     second == GetContent(clients[fb], fb, amount)
                     call2 == [provider |-> fb, amount |-> amount]
                 IN [panicked |-> FALSE,
                     items |-> IF second.err THEN NilSlice ELSE second.items,
                     calls |-> <<call1, call2>>]

\* ------------------------------------------------------------------------
\* generateListOfItemsToReturn
\* ------------------------------------------------------------------------
\* contents[config] of a Go map: nil for a key that is not in the map.
MapGet(contents, config) ==
  IF config \in DOMAIN contents THEN contents[config] ELSE NilSlice

\* The range loop: a nil slice breaks, contents[config][0] of an empty non-nil
\* slice panics, otherwise the first item is appended and cut off the slice.
RECURSIVE generateLoop(_, _, _, _)
generateLoop(ord, i, contents, list) ==
  IF i > Len(ord)
    THEN [panicked |-> FALSE, list |-> list, contents |-> contents]
    ELSE IF MapGet(contents, ord[i]).isNil
      THEN [panicked |-> FALSE, list |-> list, contents |-> contents]
      ELSE IF Len(contents[ord[i]].elems) = 0
        THEN [panicked |-> TRUE, list |-> list, contents |-> contents]
        ELSE generateLoop(ord, i + 1,
                          [contents EXCEPT ![ord[i]] = Slice(Tail(@.elems))],
                          Append(list, Head(contents[ord[i]].elems)))

\* Mutant: the plucked item is not cut off the slice.
RECURSIVE generateLoop_NoPluck(_, _, _, _)
generateLoop_NoPluck(ord, i, contents, list) ==
  IF i > Len(ord)
    THEN [panicked |-> FALSE, list |-> list, contents |-> contents]
    ELSE IF MapGet(contents, ord[i]).isNil
      THEN [panicked |-> FALSE, list |-> list, contents |-> contents]
      ELSE IF Len(contents[ord[i]].elems) = 0
        THEN [panicked |-> TRUE, list |-> list, contents |-> contents]
        ELSE generateLoop_NoPluck(ord, i + 1, contents,
                                  Append(list, Head(contents[ord[i]].elems)))

generateListOfItemsToReturn_NoPluck(ord, contents) ==
  generateLoop_NoPluck(ord, 1, contents, <<>>)

generateListOfItemsToReturn(ord, contents) == generateLoop(ord, 1, contents, <<>>)

\* writeJsonResponse: json.Marshal of a list of items never fails.
writeJsonResponse(resp, list) == Write(resp, <<"json", "items">>)

\* ------------------------------------------------------------------------
\* Initial state: the app as constructed and one request about to be served
\* ------------------------------------------------------------------------
\* Before the first request there is no previous answer.
NoRequest == [set |-> FALSE, returnList |-> <<>>, status |-> 0, body |-> <<>>]

Init ==
  /\ Config \in ContentMixes
  /\ ContentClients \in [Providers -> Clients]
  /\ countParam \in QueryParams(MaxCount)
  /\ offsetParam \in QueryParams(MaxOffset)
  /\ pc = "params"
  /\ count = 0
  /\ offset = 0
  /\ order = <<>>
  /\ CountsPerConfig = <<>>
  /\ waitgroup = 0
  /\ gpc = <<>>
  /\ taskItems = <<>>
  /\ calls = <<>>
  /\ received = 0
  /\ fetchedContents = <<>>
  /\ returnList = <<>>
  /\ status = 0
  /\ body = <<>>
  /\ prev = NoRequest

\* A panic in a goroutine ends the whole process.
Crashed == \E c \in DOMAIN gpc : gpc[c] = "panic"

Response == [status |-> status, body |-> body]

\* ------------------------------------------------------------------------
\* ServeHTTP
\* ------------------------------------------------------------------------
\* count := getQueryParameter("count", ...); offset := getQueryParameter("offset", ...)
GetQueryParameters ==
  /\ pc = "params"
  /\ LET c == getQueryParameter("count", countParam, Response)
         o == getQueryParameter("offset", offsetParam, c.resp)
     IN /\ count' = c.val
        /\ offset' = o.val
        /\ status' = o.resp.status
        /\ body' = o.resp.body
  /\ pc' = "stretch"
  /\ UNCHANGED << prev, Config, ContentClients, countParam, offsetParam, order,
                  CountsPerConfig, waitgroup, gpc, taskItems, calls, received,
                  fetchedContents, returnList >>

\* order := stretchContentMixOverCount(app.Config, count, offset, writer)
\* Mutant: the handler stores the stretched mix back into app.Config.
Stretch_StoresMix ==
  /\ pc = "stretch"
  /\ LET r == stretchContentMixOverCount(Config, count, offset, Response)
     IN /\ order' = r.mix
        /\ Config' = r.mix
        /\ status' = r.resp.status
        /\ body' = r.resp.body
        /\ pc' = IF r.panicked THEN "panic" ELSE "dispatch"
  /\ UNCHANGED << prev, ContentClients, countParam, offsetParam, count, offset,
                  CountsPerConfig, waitgroup, gpc, taskItems, calls, received,
                  fetchedContents, returnList >>

Stretch ==
  /\ pc = "stretch"
  /\ LET r == stretchContentMixOverCount(Config, count, offset, Response)
     IN /\ order' = r.mix
        /\ status' = r.resp.status
        /\ body' = r.resp.body
        /\ pc' = IF r.panicked THEN "panic" ELSE "dispatch"
  /\ UNCHANGED << prev, Config, ContentClients, countParam, offsetParam, count, offset,
                  CountsPerConfig, waitgroup, gpc, taskItems, calls, received,
                  fetchedContents, returnList >>

\* CountsPerConfig := getContentCountsPerConfig(order); waitgroup.Add(len);
\* contents := make(chan); one go fetchItemsForConfig per key.
Dispatch ==
  /\ pc = "dispatch"
  /\ LET cpc == getContentCountsPerConfig(order)
     IN /\ CountsPerConfig' = cpc
        /\ waitgroup' = Cardinality(DOMAIN cpc)
        /\ gpc' = [c \in DOMAIN cpc |-> "fetch"]
        /\ taskItems' = [c \in DOMAIN cpc |-> NilSlice]
        /\ calls' = [c \in DOMAIN cpc |-> <<>>]
  /\ received' = 0
  /\ fetchedContents' = <<>>
  /\ pc' = "collect"
  /\ UNCHANGED << prev, Config, ContentClients, countParam, offsetParam, count, offset,
                  order, returnList, status, body >>

\* Mutant: the goroutine is handed the request's count instead of the amount of
\* its config.
Fetch_AsksCount(c) ==
  /\ ~Crashed
  /\ c \in DOMAIN gpc
  /\ gpc[c] = "fetch"
  /\ LET r == fetchItemsForConfig(ContentClients, c, count)
     IN /\ taskItems' = [taskItems EXCEPT ![c] = r.items]
        /\ calls' = [calls EXCEPT ![c] = r.calls]
        /\ gpc' = [gpc EXCEPT ![c] = IF r.panicked THEN "panic" ELSE "send"]
        /\ waitgroup' = IF r.panicked THEN waitgroup - 1 ELSE waitgroup
  /\ UNCHANGED << prev, Config, ContentClients, countParam, offsetParam, pc, count,
                  offset, order, CountsPerConfig, received, fetchedContents,
                  returnList, status, body >>

\* A goroutine runs fetchItemsForConfig up to its channel send. When it panics
\* its deferred wg.Done() runs and the process ends.
Fetch(c) ==
  /\ ~Crashed
  /\ c \in DOMAIN gpc
  /\ gpc[c] = "fetch"
  /\ LET r == fetchItemsForConfig(ContentClients, c, CountsPerConfig[c])
     IN /\ taskItems' = [taskItems EXCEPT ![c] = r.items]
        /\ calls' = [calls EXCEPT ![c] = r.calls]
        /\ gpc' = [gpc EXCEPT ![c] = IF r.panicked THEN "panic" ELSE "send"]
        /\ waitgroup' = IF r.panicked THEN waitgroup - 1 ELSE waitgroup
  /\ UNCHANGED << prev, Config, ContentClients, countParam, offsetParam, pc, count,
                  offset, order, CountsPerConfig, received, fetchedContents,
                  returnList, status, body >>

\* The distinct configs of a mix, in the order of their first occurrence.
RECURSIVE distinctInOrder(_, _, _)
distinctInOrder(ord, i, acc) ==
  IF i > Len(ord)
    THEN acc
    ELSE distinctInOrder(ord, i + 1,
                         IF \E j \in DOMAIN acc : acc[j] = ord[i]
                           THEN acc
                           ELSE Append(acc, ord[i]))

\* Mutant: the collector ignores the config of the message and stores the n-th
\* message it receives under the n-th distinct config of the mix.
Receive_ByArrival(c) ==
  /\ ~Crashed
  /\ pc = "collect"
  /\ received < Cardinality(DOMAIN CountsPerConfig)
  /\ c \in DOMAIN gpc
  /\ gpc[c] = "send"
  /\ fetchedContents' =
       (distinctInOrder(order, 1, <<>>)[received + 1] :> taskItems[c]) @@ fetchedContents
  /\ received' = received + 1
  /\ gpc' = [gpc EXCEPT ![c] = "sent"]
  /\ UNCHANGED << prev, Config, ContentClients, countParam, offsetParam, pc, count,
                  offset, order, CountsPerConfig, waitgroup, taskItems, calls,
                  returnList, status, body >>

\* Mutant: the collector stores the items under the provider of the message,
\* without the fallback of its config.
Receive_KeyedByType(c) ==
  /\ ~Crashed
  /\ pc = "collect"
  /\ received < Cardinality(DOMAIN CountsPerConfig)
  /\ c \in DOMAIN gpc
  /\ gpc[c] = "send"
  /\ fetchedContents' =
       ([Type |-> c.Type, Fallback |-> NilPtr] :> taskItems[c]) @@ fetchedContents
  /\ received' = received + 1
  /\ gpc' = [gpc EXCEPT ![c] = "sent"]
  /\ UNCHANGED << prev, Config, ContentClients, countParam, offsetParam, pc, count,
                  offset, order, CountsPerConfig, waitgroup, taskItems, calls,
                  returnList, status, body >>

\* The unbuffered channel: the send of goroutine c meets a receive of the loop
\* of getMapOfFetchedContents, which stores the items under the config.
Receive(c) ==
  /\ ~Crashed
  /\ pc = "collect"
  /\ received < Cardinality(DOMAIN CountsPerConfig)
  /\ c \in DOMAIN gpc
  /\ gpc[c] = "send"
  /\ fetchedContents' = (c :> taskItems[c]) @@ fetchedContents
  /\ received' = received + 1
  /\ gpc' = [gpc EXCEPT ![c] = "sent"]
  /\ UNCHANGED << prev, Config, ContentClients, countParam, offsetParam, pc, count,
                  offset, order, CountsPerConfig, waitgroup, taskItems, calls,
                  returnList, status, body >>

\* The deferred wg.Done() of a goroutine whose send was received.
Done(c) ==
  /\ ~Crashed
  /\ c \in DOMAIN gpc
  /\ gpc[c] = "sent"
  /\ waitgroup' = waitgroup - 1
  /\ gpc' = [gpc EXCEPT ![c] = "exit"]
  /\ UNCHANGED << prev, Config, ContentClients, countParam, offsetParam, pc, count,
                  offset, order, CountsPerConfig, taskItems, calls, received,
                  fetchedContents, returnList, status, body >>

\* getMapOfFetchedContents has returned and waitgroup.Wait() lets the handler pass.
Wait ==
  /\ ~Crashed
  /\ pc = "collect"
  /\ received = Cardinality(DOMAIN CountsPerConfig)
  /\ waitgroup = 0
  /\ pc' = "generate"
  /\ UNCHANGED << prev, Config, ContentClients, countParam, offsetParam, count, offset,
                  order, CountsPerConfig, waitgroup, gpc, taskItems, calls,
                  received, fetchedContents, returnList, status, body >>

\* returnList := generateListOfItemsToReturn(order, fetchedContents);
\* writeJsonResponse(writer, returnList)
Generate ==
  /\ ~Crashed
  /\ pc = "generate"
  /\ LET r == generateListOfItemsToReturn(order, fetchedContents)
         w == writeJsonResponse(Response, r.list)
     IN /\ returnList' = r.list
        /\ fetchedContents' = r.contents
        /\ pc' = IF r.panicked THEN "panic" ELSE "done"
        /\ status' = IF r.panicked THEN status ELSE w.status
        /\ body' = IF r.panicked THEN body ELSE w.body
  /\ UNCHANGED << prev, Config, ContentClients, countParam, offsetParam, count, offset,
                  order, CountsPerConfig, waitgroup, gpc, taskItems, calls,
                  received >>

Next ==
  \/ GetQueryParameters
  \/ Stretch
  \/ Dispatch
  \/ \E c \in ContentConfigs : Fetch(c)
  \/ \E c \in ContentConfigs : Receive(c)
  \/ \E c \in ContentConfigs : Done(c)
  \/ Wait
  \/ Generate

Spec == Init /\ [][Next]_vars

\* The server calls ServeHTTP again on the same App, with the same query
\* parameters, after the first request was answered: the locals of the handler
\* are fresh, the App is the one the first request left behind.
NextRequest ==
  /\ pc = "done"
  /\ ~prev.set
  /\ prev' = [set |-> TRUE, returnList |-> returnList, status |-> status,
              body |-> body]
  /\ pc' = "params"
  /\ count' = 0
  /\ offset' = 0
  /\ order' = <<>>
  /\ CountsPerConfig' = <<>>
  /\ waitgroup' = 0
  /\ gpc' = <<>>
  /\ taskItems' = <<>>
  /\ calls' = <<>>
  /\ received' = 0
  /\ fetchedContents' = <<>>
  /\ returnList' = <<>>
  /\ status' = 0
  /\ body' = <<>>
  /\ UNCHANGED << Config, ContentClients, countParam, offsetParam >>

NextTwoRequests ==
  \/ Next
  \/ NextRequest

SpecTwoRequests == Init /\ [][NextTwoRequests]_vars

\* ------------------------------------------------------------------------
\* Vocabulary of the properties
\* ------------------------------------------------------------------------
\* The request is over: the response was written, the handler panicked, or a
\* goroutine's panic ended the process.
Finished == pc \in {"done", "panic"} \/ Crashed

Stretched == pc \notin {"params", "stretch"}

JsonWritten == \E k \in DOMAIN body : body[k][1] = "json"

\* The window of the cyclic pattern: element i is P[(off + i) mod L], i from 0.
Window(P, cnt, off) == [i \in 1..cnt |-> P[((off + i - 1) % Len(P)) + 1]]

\* The count or the offset parameter is missing or is not a number.
CallerError == countParam.kind # "num" \/ offsetParam.kind # "num"

ValidWindow == Len(Config) > 0 /\ count >= 0 /\ offset >= 0

\* Number of occurrences of config c among the first n elements of seq.
Occurrences(seq, c, n) == Cardinality({ j \in 1..n : seq[j] = c })

Demand(seq, c) == Occurrences(seq, c, Len(seq))

Registered(p) == ContentClients[p].kind # "none"

\* Provider p, asked for n items, answers without error with at least n items.
ServesFully(p, n) ==
  /\ Registered(p)
  /\ ~GetContent(ContentClients[p], p, n).err
  /\ Len(GetContent(ContentClients[p], p, n).items.elems) >= n

\* Provider p, asked for n items, answers with an error.
Fails(p, n) == Registered(p) /\ GetContent(ContentClients[p], p, n).err

PrimaryServes(seq, c) == ServesFully(c.Type, Demand(seq, c))

FallbackServes(seq, c) ==
  /\ Fails(c.Type, Demand(seq, c))
  /\ c.Fallback # NilPtr
  /\ ServesFully(Deref(c.Fallback), Demand(seq, c))

\* Primary and fallback both fail, or the primary fails and there is no fallback.
Exhausted(seq, c) ==
  /\ Fails(c.Type, Demand(seq, c))
  /\ \/ c.Fallback = NilPtr
     \/ /\ c.Fallback # NilPtr
        /\ Fails(Deref(c.Fallback), Demand(seq, c))

ConfigsOf(seq) == { seq[j] : j \in DOMAIN seq }

\* ------------------------------------------------------------------------
\* C2 - Cyclic expansion: for a non-empty pattern P of length L, count >= 0 and
\* offset >= 0, the stretched mix has exactly count elements and its element i
\* (from 0) is P[(offset + i) mod L].
\* ------------------------------------------------------------------------
C2_CyclicExpansion ==
  (Stretched /\ ValidWindow) =>
    /\ Len(order) = count
    /\ \A i \in 1..count : order[i] = Config[((offset + i - 1) % Len(Config)) + 1]

\* A window of three elements of a two-element pattern, starting at its second
\* element and wrapping around twice.
C2_Witness ==
  /\ pc = "dispatch"
  /\ Len(Config) = 2
  /\ Config[1] # Config[2]
  /\ count = 3
  /\ offset = 1
  /\ order = <<Config[2], Config[1], Config[2]>>

\* ------------------------------------------------------------------------
\* C10 - Offset continuity: for a non-empty pattern, the mix stretched over
\* count at offset, followed by the mix stretched over count2 at offset + count,
\* equals the mix stretched over count + count2 at offset (stated of the mix the
\* handler has just stretched, for every count2 up to MaxCount).
\* ------------------------------------------------------------------------
C10_OffsetContinuity ==
  (pc = "dispatch" /\ ValidWindow) =>
    \A count2 \in 0..MaxCount :
      order \o stretchContentMixOverCount(Config, count2, offset + count, Response).mix
        = stretchContentMixOverCount(Config, count + count2, offset, Response).mix

\* Two non-empty windows of a two-element pattern, the first starting inside it.
C10_Witness ==
  /\ pc = "dispatch"
  /\ Len(Config) = 2
  /\ Config[1] # Config[2]
  /\ count = 2
  /\ offset = 1
  /\ Len(stretchContentMixOverCount(Config, 1, offset + count, Response).mix) = 1

AllPrimariesServe ==
  LET w == Window(Config, count, offset)
  IN \A c \in ConfigsOf(w) : PrimaryServes(w, c)

\* ------------------------------------------------------------------------
\* C1 - Full-success identity: for a non-empty pattern, count >= 0 and
\* offset >= 0, if the primary provider of every config of the window succeeds
\* with at least the demanded number of items, the request ends with a written
\* list of exactly count items and item i comes from the provider of
\* P[(offset + i) mod L].
\* ------------------------------------------------------------------------
C1_FullSuccessIdentity ==
  (Finished /\ Stretched /\ ValidWindow /\ AllPrimariesServe) =>
    /\ pc = "done"
    /\ JsonWritten
    /\ Len(returnList) = count
    /\ \A i \in 1..count :
         returnList[i].Source = Config[((offset + i - 1) % Len(Config)) + 1].Type

\* Three items of two providers served in full, from an offset inside the pattern.
C1_Witness ==
  /\ pc = "done"
  /\ ValidWindow
  /\ AllPrimariesServe
  /\ count = 3
  /\ offset = 1
  /\ Len(Config) = 2
  /\ Config[1].Type # Config[2].Type

ServingProvider(seq, c) ==
  IF PrimaryServes(seq, c) THEN c.Type ELSE Deref(c.Fallback)

AllServedSomeByFallback ==
  LET w == Window(Config, count, offset)
  IN /\ \A c \in ConfigsOf(w) : PrimaryServes(w, c) \/ FallbackServes(w, c)
     /\ \E c \in ConfigsOf(w) : FallbackServes(w, c)

\* ------------------------------------------------------------------------
\* C3 - Fallback substitution: when every config of the window is served in
\* full, by its primary or, the primary failing, by its fallback, the request
\* ends with exactly count items in the order of the window; a position of a
\* config whose primary failed carries the fallback's item, every other
\* position the item of its primary.
\* ------------------------------------------------------------------------
C3_FallbackSubstitution ==
  (Finished /\ Stretched /\ ValidWindow /\ AllServedSomeByFallback) =>
    LET w == Window(Config, count, offset)
    IN /\ pc = "done"
       /\ JsonWritten
       /\ Len(returnList) = count
       /\ \A i \in 1..count :
            returnList[i] = Item(ServingProvider(w, w[i]), Occurrences(w, w[i], i))

\* A config served by its fallback next to a config served by its primary.
C3_Witness ==
  /\ pc = "done"
  /\ ValidWindow
  /\ AllServedSomeByFallback
  /\ count = 3
  /\ \E c \in ConfigsOf(order) : PrimaryServes(order, c)
  /\ \E c \in ConfigsOf(order) : FallbackServes(order, c) /\ Demand(order, c) = 2

FirstIndex(seq, c) ==
  CHOOSE i \in DOMAIN seq : seq[i] = c /\ \A j \in 1..(i - 1) : seq[j] # c

OnlyExhausted(seq, c) ==
  /\ c \in ConfigsOf(seq)
  /\ Exhausted(seq, c)
  /\ \A d \in ConfigsOf(seq) \ {c} : PrimaryServes(seq, d) \/ FallbackServes(seq, d)

TruncatedBefore(seq, c) ==
  /\ pc = "done"
  /\ JsonWritten
  /\ Len(returnList) = FirstIndex(seq, c) - 1
  /\ \A i \in 1..(FirstIndex(seq, c) - 1) :
       returnList[i] = Item(ServingProvider(seq, seq[i]), Occurrences(seq, seq[i], i))

\* ------------------------------------------------------------------------
\* C4 - Truncation on double failure: when one config of the window has its
\* primary fail and its fallback fail or be absent, and every other config is
\* served in full, the request still ends with a written list, which holds the
\* items of the positions before the first occurrence of that config and
\* nothing else.
\* ------------------------------------------------------------------------
C4_TruncationOnDoubleFailure ==
  (Finished /\ Stretched /\ ValidWindow /\ ~CallerError) =>
    \A c \in ContentConfigs :
      OnlyExhausted(Window(Config, count, offset), c) =>
        TruncatedBefore(Window(Config, count, offset), c)

\* ------------------------------------------------------------------------
\* C5 - Primary failure without fallback is absorbed: a goroutine whose primary
\* provider failed and whose config has no fallback goes on to send an empty
\* result for its config; it does not panic and the process does not end.
\* ------------------------------------------------------------------------
C5_NoFallbackAbsorbed ==
  \A c \in DOMAIN gpc :
    (gpc[c] # "fetch" /\ ~CallerError /\ c.Fallback = NilPtr
       /\ Fails(c.Type, CountsPerConfig[c])) =>
      /\ gpc[c] # "panic"
      /\ Len(taskItems[c].elems) = 0

Provided(seq, c) ==
  Len(GetContent(ContentClients[c.Type], c.Type, Demand(seq, c)).items.elems)

AllPrimariesAnswerSomeShort ==
  LET w == Window(Config, count, offset)
  IN /\ \A c \in ConfigsOf(w) :
          Registered(c.Type)
            /\ ~GetContent(ContentClients[c.Type], c.Type, Demand(w, c)).err
     /\ \E c \in ConfigsOf(w) : Provided(w, c) < Demand(w, c)

\* Positions of seq at which the config has already handed out all its items.
StarvedPositions(seq) ==
  { i \in DOMAIN seq : Occurrences(seq, seq[i], i) > Provided(seq, seq[i]) }

FirstStarved(seq) ==
  CHOOSE i \in StarvedPositions(seq) : \A j \in StarvedPositions(seq) : i <= j

\* ------------------------------------------------------------------------
\* C6 - Short results truncate, never fail: when every primary of the window
\* answers without error and one of them with fewer items than demanded, the
\* request ends with a written list that holds the items of the positions
\* before the first position whose config has no item left; there is no panic.
\* ------------------------------------------------------------------------
C6_ShortResultsTruncate ==
  (Finished /\ Stretched /\ ValidWindow /\ ~CallerError /\ AllPrimariesAnswerSomeShort) =>
    LET w == Window(Config, count, offset)
    IN /\ pc = "done"
       /\ JsonWritten
       /\ Len(returnList) = FirstStarved(w) - 1
       /\ \A i \in 1..(FirstStarved(w) - 1) :
            returnList[i] = Item(w[i].Type, Occurrences(w, w[i], i))

\* ------------------------------------------------------------------------
\* C7 - Caller errors are rejected before the core runs: when count or offset
\* is missing or not a number, the handler answers 400 and goes no further: no
\* expansion, no provider invocation, no item list in the response.
\* ------------------------------------------------------------------------
C7_CallerErrorsRejected ==
  (CallerError /\ Len(Config) > 0) =>
    /\ pc # "params" => status = StatusBadRequest
    /\ order = <<>>
    /\ ~JsonWritten
    /\ \A c \in DOMAIN calls : calls[c] = <<>>

\* ------------------------------------------------------------------------
\* C8 - Empty pattern is a configuration error: for every count >= 0 and
\* offset >= 0, a request against an empty pattern ends with the 500 response
\* as its only outcome; the expansion does not index into the empty pattern,
\* no goroutine is started and no item list is written.
\* ------------------------------------------------------------------------
C8_EmptyPatternRejected ==
  (Len(Config) = 0 /\ ~CallerError /\ count >= 0 /\ offset >= 0 /\ Stretched) =>
    /\ status = StatusInternalServerError
    /\ pc # "panic"
    /\ ~JsonWritten
    /\ DOMAIN gpc = {}

TasksIn(states) == { c \in DOMAIN gpc : gpc[c] \in states }

\* ------------------------------------------------------------------------
\* C9 - Join barrier and deadlock freedom: while the handler collects, every
\* goroutine has sent its result or is still going to send it, so that every
\* receive of the collector is served; the handler starts interleaving only
\* with every result received and every goroutine gone through wg.Done().
\* ------------------------------------------------------------------------
C9_JoinBarrier ==
  /\ (pc = "collect" /\ ~CallerError) =>
       /\ received = Cardinality(TasksIn({"sent", "exit"}))
       /\ Cardinality(DOMAIN CountsPerConfig) - received
            = Cardinality(TasksIn({"fetch", "send"}))
  /\ pc \in {"generate", "done"} =>
       /\ received = Cardinality(DOMAIN CountsPerConfig)
       /\ TasksIn({"exit"}) = DOMAIN CountsPerConfig
       /\ waitgroup = 0

\* The handler has built the demand map and started the goroutines.
Dispatched == pc \in {"collect", "generate", "done"}

RECURSIVE SumOfValues(_)
SumOfValues(f) ==
  IF DOMAIN f = {}
    THEN 0
    ELSE LET k == CHOOSE x \in DOMAIN f : TRUE
         IN f[k] + SumOfValues([x \in DOMAIN f \ {k} |-> f[x]])

\* ------------------------------------------------------------------------
\* C11 - Demand conservation: the demand map built from the stretched mix has
\* exactly the distinct configs of the mix as keys, maps each to its number of
\* occurrences in the mix, and its values sum to the length of the mix.
\* ------------------------------------------------------------------------
C11_DemandConservation ==
  Dispatched =>
    /\ DOMAIN CountsPerConfig = ConfigsOf(order)
    /\ \A c \in DOMAIN CountsPerConfig : CountsPerConfig[c] = Demand(order, c)
    /\ SumOfValues(CountsPerConfig) = Len(order)

\* A mix of three elements with two distinct configs, one of them twice.
C11_Witness ==
  /\ pc = "collect"
  /\ Len(order) = 3
  /\ Cardinality(DOMAIN CountsPerConfig) = 2
  /\ \E c \in DOMAIN CountsPerConfig : CountsPerConfig[c] = 2

\* The count or the offset parameter is a negative number.
NegativeParam ==
  \/ countParam.kind = "num" /\ countParam.val < 0
  \/ offsetParam.kind = "num" /\ offsetParam.val < 0

\* ------------------------------------------------------------------------
\* C12 - Negative count or offset is a caller error: a request whose count or
\* offset is a negative number is not expanded, starts no goroutine, gets no
\* item list written and ends with the 400 response.
\* ------------------------------------------------------------------------
C12_NegativeRejected ==
  (NegativeParam /\ ~CallerError /\ Len(Config) > 0) =>
    /\ order = <<>>
    /\ DOMAIN gpc = {}
    /\ ~JsonWritten
    /\ Finished => status = StatusBadRequest

\* The provider ID a config falls back to, "none" without fallback.
FallbackID(c) == IF c.Fallback = NilPtr THEN "none" ELSE Deref(c.Fallback)

SameProviderIDs(c, d) == c.Type = d.Type /\ FallbackID(c) = FallbackID(d)

\* ------------------------------------------------------------------------
\* C13 - Structural key equality: two configs of the mix with the same provider
\* ID and the same fallback provider ID are one key of the demand map, and so
\* one goroutine and one slot of the fetched contents, however their fallback
\* references were constructed.
\* ------------------------------------------------------------------------
C13_StructuralKeyEquality ==
  (Dispatched /\ ~CallerError) =>
    \A c \in DOMAIN CountsPerConfig : \A d \in DOMAIN CountsPerConfig :
      SameProviderIDs(c, d) => c = d

\* Config c of mix seq has a provider invoked that the registry does not hold:
\* its primary, or its fallback once the primary has failed.
InvokesUnregistered(seq, c) ==
  \/ ~Registered(c.Type)
  \/ /\ Fails(c.Type, Demand(seq, c))
     /\ c.Fallback # NilPtr
     /\ ~Registered(Deref(c.Fallback))

\* ------------------------------------------------------------------------
\* C14 - An unregistered provider is a configuration error: when a config of
\* the window has its primary, or the fallback it falls back to, missing from
\* the registry, the request ends with the 500 response; nothing panics and no
\* item list is written.
\* ------------------------------------------------------------------------
C14_UnregisteredIsConfigurationError ==
  (Finished /\ Stretched /\ ValidWindow /\ ~CallerError
     /\ \E c \in ConfigsOf(order) : InvokesUnregistered(order, c)) =>
    /\ ~Crashed
    /\ pc = "done"
    /\ status = StatusInternalServerError
    /\ ~JsonWritten

\* ------------------------------------------------------------------------
\* C15 - Interleaved output is a contiguous, order-preserving prefix: the list
\* is never longer than the stretched mix (so never longer than a count >= 0),
\* and its item i is the k-th item of the result set that the goroutine of
\* order[i] sent, k being the number of occurrences of order[i] up to i.
\* ------------------------------------------------------------------------
C15_ContiguousPrefix ==
  (Dispatched \/ pc = "panic") =>
    /\ Len(returnList) <= Len(order)
    /\ count >= 0 => Len(returnList) <= count
    /\ \A i \in 1..Len(returnList) :
         /\ ~taskItems[order[i]].isNil
         /\ Occurrences(order, order[i], i) <= Len(taskItems[order[i]].elems)
         /\ returnList[i] = taskItems[order[i]].elems[Occurrences(order, order[i], i)]

\* A written list of three items whose third item is the second one of the
\* config that also served the first position.
C15_Witness ==
  /\ pc = "done"
  /\ JsonWritten
  /\ Len(returnList) = 3
  /\ order[1] # order[2]
  /\ order[3] = order[1]
  /\ returnList[3].idx = 2

\* The outcome of the request computed without goroutines: the mix stretched
\* from the request's parameters, every config of it fetched in turn, and the
\* results arranged.
SequentialOrder ==
  stretchContentMixOverCount(Config, Atoi(countParam).val, Atoi(offsetParam).val,
                             Response).mix

SequentialContents ==
  [c \in ConfigsOf(SequentialOrder) |->
     fetchItemsForConfig(ContentClients, c, Demand(SequentialOrder, c)).items]

SequentialOutcome == generateListOfItemsToReturn(SequentialOrder, SequentialContents)

\* ------------------------------------------------------------------------
\* C16 - Output determinism under interleaving: the list a request ends with
\* is the one determined by the pattern, the count, the offset and the
\* providers' answers alone, whatever the schedule of the goroutines and the
\* order in which their results arrive on the channel.
\* ------------------------------------------------------------------------
C16_OutputDeterminism ==
  pc = "done" =>
    /\ ~SequentialOutcome.panicked
    /\ returnList = SequentialOutcome.list

\* A written list of three items from two goroutines with different providers.
C16_Witness ==
  /\ pc = "done"
  /\ Len(returnList) = 3
  /\ Cardinality(DOMAIN gpc) = 2
  /\ returnList[1].Source # returnList[2].Source

\* The amounts of the primary invocations made so far, summed over the goroutines.
RECURSIVE SumOfPrimaryAmounts(_)
SumOfPrimaryAmounts(tasks) ==
  IF tasks = {}
    THEN 0
    ELSE LET c == CHOOSE x \in tasks : TRUE
         IN (IF calls[c] = <<>> THEN 0 ELSE calls[c][1].amount)
              + SumOfPrimaryAmounts(tasks \ {c})

C18_SingleFallbackHop ==
  \A c \in DOMAIN calls :
    /\ Len(calls[c]) <= 2
    /\ Len(calls[c]) = 2 =>
         /\ Fails(c.Type, CountsPerConfig[c])
         /\ c.Fallback # NilPtr
         /\ calls[c][1] = [provider |-> c.Type, amount |-> CountsPerConfig[c]]
         /\ calls[c][2] = [provider |-> Deref(c.Fallback), amount |-> CountsPerConfig[c]]
    /\ (gpc[c] # "fetch" /\ Registered(c.Type) /\ ~Fails(c.Type, CountsPerConfig[c])) =>
         Len(calls[c]) = 1

\* One goroutine that asked its fallback for two items after its primary failed,
\* next to one whose primary answered with fewer items than asked.
C18_Witness ==
  /\ pc = "generate"
  /\ \E c \in DOMAIN calls : Len(calls[c]) = 2 /\ calls[c][2].amount = 2
  /\ \E c \in DOMAIN calls :
       /\ Len(calls[c]) = 1
       /\ Len(taskItems[c].elems) < CountsPerConfig[c]

\* ------------------------------------------------------------------------
\* C19 - Frame: no step of the handler changes app.Config or
\* app.ContentClients, and a second request with the same parameters on the
\* same App is answered with the same list, status and body as the first.
\* ------------------------------------------------------------------------
C19_StatelessAcrossRequests ==
  /\ [][Config' = Config /\ ContentClients' = ContentClients]_vars
  /\ [](prev.set /\ pc = "done" =>
          /\ returnList = prev.returnList
          /\ status = prev.status
          /\ body = prev.body)

\* The second of two requests is answered: a goroutine went to its fallback,
\* and the list was cut off after the first of three items.
C19_Witness ==
  /\ prev.set
  /\ pc = "done"
  /\ Len(order) = 3
  /\ Len(returnList) = 1
  /\ prev.returnList = returnList
  /\ \E c \in DOMAIN calls : Len(calls[c]) = 2

\* ------------------------------------------------------------------------
\* C20 - Collection fills the map key for key: while the handler collects, the
\* keys of the fetched contents are the goroutines whose send was received,
\* each holding what its goroutine fetched, and the number of receives equals
\* the number of keys, so no key was written twice; when collection has ended
\* the keys are those of the demand map, after as many receives, and a config
\* whose primary and fallback both failed holds the nil slice.
\* ------------------------------------------------------------------------
C20_OneEntryPerDemandedConfig ==
  /\ pc = "collect" =>
       /\ DOMAIN fetchedContents = TasksIn({"sent", "exit"})
       /\ received = Cardinality(DOMAIN fetchedContents)
       /\ received <= Cardinality(DOMAIN CountsPerConfig)
       /\ \A c \in DOMAIN fetchedContents : fetchedContents[c] = taskItems[c]
  /\ pc \in {"generate", "done"} =>
       /\ DOMAIN fetchedContents = DOMAIN CountsPerConfig
       /\ received = Cardinality(DOMAIN CountsPerConfig)
       /\ TasksIn({"exit"}) = DOMAIN CountsPerConfig
  /\ pc = "generate" =>
       \A c \in DOMAIN fetchedContents :
         /\ fetchedContents[c] = taskItems[c]
         /\ (Len(calls[c]) = 2 /\ Fails(Deref(c.Fallback), CountsPerConfig[c])) =>
              fetchedContents[c] = NilSlice

\* Collection has ended with two keys, one of them holding the nil slice.
C20_Witness ==
  /\ pc = "generate"
  /\ received = 2
  /\ Cardinality(DOMAIN fetchedContents) = 2
  /\ \E c \in DOMAIN fetchedContents : fetchedContents[c] = NilSlice
  /\ \E c \in DOMAIN fetchedContents : Len(fetchedContents[c].elems) = 2

====
